---- MODULE Spec2Model ----
(***************************************************************************)
(* The stroke log of the collaborative canvas server (src/server.js): the  *)
(* socket handlers draw / erase / undo / clear / daily-reset /             *)
(* request-sync, the REST endpoints restore and sync-canvas, the           *)
(* persistence of the log (saveCanvasData, the 30 s interval), and the     *)
(* events the server sends to the connected sessions.                      *)
(*                                                                         *)
(* JavaScript values are modelled as tagged pairs <<typeof, value>>; an    *)
(* object is <<"object", record>> and a missing property reads as          *)
(* Undefined, as in JavaScript.                                            *)
(***************************************************************************)
EXTENDS Integers, Sequences, FiniteSets, TLC

(***************************************************************************)
(* Bounds of the model.                                                    *)
(***************************************************************************)
\* strokes the server stamps in one behaviour (caps the id counter)
MaxIds == 3
\* events waiting in one session's connection
MaxOutbox == 1
\* file writes in flight at the same time
MaxWrites == 2
\* events a page has emitted that the server has not handled yet
MaxSent == 1
\* calendar days a behaviour spans: 0 .. MaxDay
MaxDay == 1
\* POST requests (restore, sync-canvas) handled in one behaviour
MaxPosts == 2

\* src/server.js:64 is 2000; the model scales it down so that trimming is
\* reached. Every formula below is stated in terms of MAX_STROKES.
MAX_STROKES == 2

Sessions == {"A", "B"}

(***************************************************************************)
(* JavaScript values.                                                      *)
(***************************************************************************)
Undefined == <<"undefined", 0>>
Num(n) == <<"number", n>>
Str(s) == <<"string", s>>
Obj(r) == <<"object", r>>

Null == <<"null", 0>>
Arr(s) == <<"array", s>>

\* typeof v
TypeOf(v) == IF v[1] \in {"array", "null"} THEN "object" ELSE v[1]

\* Array.isArray(v)
IsArray(v) == v[1] = "array"

\* v.f : a property of a non-object or a missing property is undefined
Get(v, f) ==
    IF v[1] = "object" /\ f \in DOMAIN v[2] THEN v[2][f] ELSE Undefined

\* the truthiness of v, as in `if (v)` and `v && ...`
Truthy(v) ==
    CASE v[1] \in {"undefined", "null"} -> FALSE
      [] v[1] = "number" -> v[2] # 0
      [] v[1] = "string" -> v[2] # ""
      [] OTHER -> TRUE

\* { ...d, ...o } for the records d and o: the later properties win
Spread(d, o) ==
    [f \in (DOMAIN d) \cup (DOMAIN o) |-> IF f \in DOMAIN o THEN o[f] ELSE d[f]]

\* s.slice(-n) for n > 0
SliceLast(s, n) ==
    LET start == IF Len(s) - n > 0 THEN Len(s) - n ELSE 0
    IN  SubSeq(s, start + 1, Len(s))

\* s.slice(0, k) for an integer k >= 0
SliceFirst(s, k) == SubSeq(s, 1, IF k < Len(s) THEN k ELSE Len(s))

VARIABLES
    canvasData,     \* the server's log (src/server.js:63)
    connected,      \* the sessions whose socket is connected
    greeting,       \* the sessions whose 200 ms connection timer is pending
    outbox,         \* per session: the events sent to it, not yet received
    disk,           \* the content of canvas-data.json
    writes,         \* the fs.writeFile calls in flight
    idCount,        \* how many ids generateId() has handed out
    today,          \* the current calendar day (new Date().toDateString())
    lastResetDate,  \* global.lastResetDate
    lastOp,         \* history: the handler that ran last
    submitted,      \* history: the accepted draw/erase submissions, in order
    posts,          \* how many POST requests the server has handled
    phase,          \* "loading" until loadCanvasData is through, then "listening"
    client,         \* per session: allStrokes, history and historyStep of
                    \* its page (public/script.js:28-30)
    sent,           \* per session: the events it has emitted, not yet handled
    foreign         \* the value of canvasData (src/server.js:63) when it is
                    \* no array, as after JSON.parse of such a file (line 71);
                    \* canvasData is then kept empty here

vars == <<canvasData, connected, greeting, outbox, disk, writes, idCount,
          today, lastResetDate, lastOp, submitted, posts, phase, client,
          sent, foreign>>

\* canvasData holds an array
NotForeign == <<"array", 0>>

\* the value of the JavaScript variable canvasData
LogValue == IF foreign = NotForeign THEN Arr(canvasData) ELSE foreign

(***************************************************************************)
(* Events and sends.                                                       *)
(***************************************************************************)
Event(name, payload) == [event |-> name, payload |-> payload]

\* the outboxes after one event has been sent to the sessions in `targets`
Emit(box, targets, ev) ==
    [t \in Sessions |-> IF t \in targets THEN Append(box[t], ev) ELSE box[t]]

\* every session in `targets` can take one more event
Room(targets) == \A t \in targets : Len(outbox[t]) < MaxOutbox

\* the step taken last: the handler or timer that ran, the input it was
\* given (kept for undo) and what it did
OpArg(name, arg, res) == [op |-> name, arg |-> arg, res |-> res]
Op(name, res) == OpArg(name, Undefined, res)
NoOp == Op("none", "-")

(***************************************************************************)
(* generateId() and Date.now().  An id is unique per call; a timestamp is  *)
(* kept as the calendar day it falls on, which is all the code reads of it,*)
(* counted from 1: no Date.now() is 0, the one number that is falsy.       *)
(***************************************************************************)
generateId(n) == Str("srv" \o ToString(n))

DateNow == Num(today + 1)

\* new Date(v).toDateString() (lines 73-75): the day a timestamp falls on;
\* anything that is no timestamp gives "Invalid Date", the day -1
DateString(v) == IF TypeOf(v) = "number" /\ v[2] >= 1 THEN v[2] - 1 ELSE -1

(***************************************************************************)
(* Inputs.                                                                 *)
(***************************************************************************)
\* the payload script.js sends (public/script.js:112-117)
FullPayload ==
    Obj([x0 |-> Num(0), y0 |-> Num(0), x1 |-> Num(10), y1 |-> Num(10),
         color |-> Str("#fff"), size |-> Num(3), tool |-> Str("pen"),
         type |-> Str("draw"), id |-> Str("client")])

\* numeric geometry and nothing else
BarePayload ==
    Obj([x0 |-> Num(1), y0 |-> Num(2), x1 |-> Num(3), y1 |-> Num(4)])

ValidPayloads == {FullPayload, BarePayload}

\* a payload that brings an id, a timestamp, a userId and a type of its own
ForgedPayload ==
    Obj([x0 |-> Num(5), y0 |-> Num(5), x1 |-> Num(6), y1 |-> Num(6),
         color |-> Str("#f00"), size |-> Num(1), tool |-> Str("pen"),
         type |-> Str("erase"), id |-> Str("forged"),
         timestamp |-> Num(99), userId |-> Str("root")])

InvalidPayloads ==
    { Undefined,
      Obj([y0 |-> Num(0), x1 |-> Num(10), y1 |-> Num(10),
           color |-> Str("#fff"), size |-> Num(3), tool |-> Str("pen")]),
      Obj([x0 |-> Num(0), y0 |-> Num(0), x1 |-> Num(10), y1 |-> Str("10"),
           color |-> Str("#fff"), size |-> Num(3), tool |-> Str("pen")]) }

DrawInputs == ValidPayloads \cup InvalidPayloads

(***************************************************************************)
(* draw and erase (src/server.js:122-149, 169-192).                        *)
(***************************************************************************)
\* a guard that looks at the start point only
ValidStartPoint(data) ==
    /\ Truthy(data)
    /\ TypeOf(Get(data, "x0")) = "number"
    /\ TypeOf(Get(data, "y0")) = "number"

\* the guard of lines 124-125 and 171-172, negated
ValidGeometry(data) ==
    /\ Truthy(data)
    /\ TypeOf(Get(data, "x0")) = "number"
    /\ TypeOf(Get(data, "y0")) = "number"
    /\ TypeOf(Get(data, "x1")) = "number"
    /\ TypeOf(Get(data, "y1")) = "number"

\* lines 127-133 and 174-180
StrokeData(data, s, kind, n) ==
    Obj(Spread(data[2], [timestamp |-> DateNow, id |-> generateId(n),
                         userId |-> Str(s), type |-> Str(kind)]))

\* a trim that keeps the oldest entries instead of the newest
TrimKeepsOldest(log) ==
    IF Len(log) > MAX_STROKES THEN SliceFirst(log, MAX_STROKES) ELSE log

\* a trim that drops one entry, whatever the excess
TrimDropsOne(log) == IF Len(log) > MAX_STROKES THEN Tail(log) ELSE log

\* lines 138-142, 185, 321
Trim(log) == IF Len(log) > MAX_STROKES THEN SliceLast(log, MAX_STROKES) ELSE log

\* an emit that echoes the stroke to its sender
AppendTargetsWithSender(s) == connected

\* socket.broadcast.emit (lines 136, 183): every connected session but `s`
AppendTargets(s) == connected \ {s}

\* lines 147, 190: the payload of the 'error' event
PushFailed(kind) ==
    Obj([message |-> Str("Failed to process " \o kind \o " event")])

\* the handler of 'draw' (kind = "draw") and of 'erase' (kind = "erase")
AppendHandler(s, data, kind) ==
    /\ s \in connected
    /\ IF ~ValidGeometry(data)
       THEN /\ lastOp' = Op(kind, "dropped")
            /\ UNCHANGED <<canvasData, outbox, idCount>>
       ELSE IF foreign # NotForeign
       THEN \* canvasData.push is no function (lines 135, 182): the catch of
            \* lines 145-148, 188-191 tells the sender; generateId() has run
            /\ idCount < MaxIds
            /\ Room({s})
            /\ outbox' = Emit(outbox, {s}, Event("error", PushFailed(kind)))
            /\ idCount' = idCount + 1
            /\ lastOp' = Op(kind, "error")
            /\ UNCHANGED canvasData
       ELSE /\ idCount < MaxIds
            /\ Room(AppendTargets(s))
            /\ LET strokeData == StrokeData(data, s, kind, idCount + 1)
               IN  /\ canvasData' = Trim(Append(canvasData, strokeData))
                   /\ outbox' = Emit(outbox, AppendTargets(s),
                                     Event("stroke-added", strokeData))
            /\ idCount' = idCount + 1
            /\ lastOp' = Op(kind, "appended")
    /\ UNCHANGED <<connected, greeting, disk, writes, today, lastResetDate,
                   posts, phase, foreign>>

Draw(s, data) ==
    AppendHandler(s, data, "draw") /\ UNCHANGED <<submitted, client, sent>>

Erase(s, data) ==
    AppendHandler(s, data, "erase") /\ UNCHANGED <<submitted, client, sent>>

(***************************************************************************)
(* Persistence (src/server.js:88-98).                                      *)
(***************************************************************************)
\* what JSON.stringify keeps of a value: a property whose value is
\* undefined is left out, an undefined array element becomes null
RECURSIVE JsonValue(_)
JsonValue(v) ==
    CASE v[1] = "object" ->
           Obj([f \in {g \in DOMAIN v[2] : v[2][g] # Undefined} |->
                    JsonValue(v[2][f])])
      [] v[1] = "array" ->
           Arr([i \in 1..Len(v[2]) |->
                    IF v[2][i] = Undefined THEN Null ELSE JsonValue(v[2][i])])
      [] OTHER -> v

\* the content of a file: none, one that cannot be read, a text that is no
\* JSON, or the text of a value
NoFile == <<"nofile", 0>>
Unreadable == <<"unreadable", 0>>
Partial == <<"partial", 0>>
JsonText(v) == <<"json", JsonValue(v)>>

\* JSON.stringify(canvasData), evaluated when saveCanvasData is called (line 90)
Stringify(log) == JsonText(Arr(log))

\* saveCanvasData() up to its await: the file write is issued with the text
\* of the log as it is now; `owner` is the caller that awaits it
IssueWrite(log, owner) ==
    /\ Len(writes) < MaxWrites
    /\ writes' = Append(writes, [content |-> Stringify(log), owner |-> owner])

\* the same for a canvasData that is no array
IssueText(text, owner) ==
    /\ Len(writes) < MaxWrites
    /\ writes' = Append(writes, [content |-> text, owner |-> owner])

RemoveAt(seq, i) == SubSeq(seq, 1, i - 1) \o SubSeq(seq, i + 1, Len(seq))

\* what a write leaves in the file: its text; or on an error the file as it
\* was (the open failed) or a cut-off text (the write failed half way)
WriteOutcomes == {"written", "failed", "partial"}

\* a write that takes the text of the log when it completes
DiskAfterLive(w, outcome) ==
    CASE outcome = "written" -> Stringify(canvasData)
      [] outcome = "partial" -> Partial
      [] OTHER -> disk

\* a write that never replaces a file that is there
DiskAfterKept(w, outcome) ==
    CASE outcome = "written" -> IF disk = NoFile THEN w.content ELSE disk
      [] outcome = "partial" -> Partial
      [] OTHER -> disk

DiskAfter(w, outcome) ==
    CASE outcome = "written" -> w.content
      [] outcome = "partial" -> Partial
      [] OTHER -> disk

\* a save whose failure is thrown on to its caller
SaveResolvesOnSuccess(outcome) == outcome = "written"

\* lines 89-94: saveCanvasData catches the error of the write, so the await
\* of its caller ends normally whatever the outcome
SaveResolves(outcome) == TRUE

\* an exit at the first write that settles, whoever issued it
ExitAfterAny(owner) == TRUE

\* lines 103-104, 108-109: process.exit(0) follows the save that the signal
\* handler awaits
ExitAfter(owner) == owner = "shutdown"

\* the file an exiting process leaves: what the write that settled has made
\* of it (`file`), or, when other writes are under way, a text cut off by
\* one of them or the text of one of them
ExitOutcomes(file, others) ==
    IF others = <<>>
    THEN {file}
    ELSE {file, Partial} \cup {others[j].content : j \in 1..Len(others)}

\* setInterval(saveCanvasData, 30000), line 98
IntervalSave ==
    /\ phase # "exited"
    /\ IF foreign = NotForeign
       THEN IssueWrite(canvasData, "interval")
       ELSE IssueText(JsonText(foreign), "interval")
    /\ lastOp' = Op("interval-save", "issued")
    /\ UNCHANGED <<canvasData, connected, greeting, outbox, disk, idCount,
                   today, lastResetDate, submitted, posts, phase, client, sent, foreign>>

\* SIGINT or SIGTERM (lines 101-110), up to the await of saveCanvasData
Signal ==
    /\ phase # "exited"
    /\ IF foreign = NotForeign
       THEN IssueWrite(canvasData, "shutdown")
       ELSE IssueText(JsonText(foreign), "shutdown")
    /\ lastOp' = Op("signal", "issued")
    /\ UNCHANGED <<canvasData, connected, greeting, outbox, disk, idCount,
                   today, lastResetDate, submitted, posts, phase, client, sent, foreign>>

\* one fs.writeFile settles (in any order); saveCanvasData returns to its
\* caller, which for restore goes on with lines 306-309 and for a signal
\* handler with process.exit(0): the connections close, the writes still
\* under way end with the process, the log stays as it was at the exit
WriteSettles(i, outcome) ==
    /\ i \in 1..Len(writes)
    /\ LET w == writes[i]
       IN  /\ lastOp' = Op(w.owner \o "-saved", outcome)
           /\ IF ExitAfter(w.owner)
              THEN /\ phase' = "exited"
                   /\ disk' \in ExitOutcomes(DiskAfter(w, outcome),
                                             RemoveAt(writes, i))
                   /\ writes' = <<>>
                   /\ connected' = {}
                   /\ greeting' = {}
                   /\ outbox' = [s \in Sessions |-> <<>>]
              ELSE /\ disk' = DiskAfter(w, outcome)
                   /\ writes' = RemoveAt(writes, i)
                   /\ IF w.owner = "restore" /\ SaveResolves(outcome)
                      THEN /\ Room(connected)
                           /\ outbox' = Emit(outbox, connected,
                                             Event("canvas-data", LogValue))
                      ELSE UNCHANGED outbox
                   /\ UNCHANGED <<connected, greeting, phase>>
    /\ UNCHANGED <<canvasData, idCount, today, lastResetDate, submitted, posts,
                   client, sent, foreign>>

(***************************************************************************)
(* clear, undo, request-sync, daily-reset (src/server.js:152-233).         *)
(***************************************************************************)
\* the emit of the first server (socket.broadcast.emit), which skips the sender
ClearTargetsWithoutSender(s) == connected \ {s}

\* io.emit (line 199): every connected session, the sender `s` included
ClearTargets(s) == connected

\* lines 195-207
ClearHandler(s) ==
    /\ s \in connected
    /\ Room(ClearTargets(s))
    /\ canvasData' = <<>>
    /\ outbox' = Emit(outbox, ClearTargets(s),
                      Event("canvas-cleared", Undefined))
    /\ foreign' = NotForeign
    /\ IssueWrite(<<>>, "clear")
    /\ lastOp' = Op("clear", "cleared")
    /\ UNCHANGED <<connected, greeting, disk, idCount, today, lastResetDate,
                   submitted, posts, phase>>

Clear(s) == ClearHandler(s) /\ UNCHANGED <<client, sent>>

\* the payload script.js sends with 'undo' (public/script.js:250)
UndoTo(k) == Obj([targetLength |-> Num(k)])

\* what a session may send with 'undo'
UndoInputs ==
    { Undefined,
      Obj([steps |-> Num(1)]),
      Obj([targetLength |-> Str("1")]) }
    \cup { Obj([targetLength |-> Num(k)]) : k \in -1..(MAX_STROKES + 2) }

\* the conditions without the upper bound
UndoAcceptsAnyLength(data, log) ==
    /\ Truthy(data)
    /\ Truthy(Get(data, "targetLength"))
    /\ TypeOf(Get(data, "targetLength")) = "number"
    /\ Get(data, "targetLength")[2] >= 0

\* the two conditions of lines 212-213
UndoAccepts(data, log) ==
    /\ Truthy(data)
    /\ Truthy(Get(data, "targetLength"))
    /\ TypeOf(Get(data, "targetLength")) = "number"
    /\ Get(data, "targetLength")[2] >= 0
    /\ Get(data, "targetLength")[2] < Len(log)

\* a cut that keeps the newest entries
TruncatedFromEnd(log, k) == SliceLast(log, k)

\* line 215: canvasData.slice(0, data.targetLength)
Truncated(log, k) == SliceFirst(log, k)

\* an undo that takes targetLength for the number of entries to remove
UndoLogRelative(log, data) ==
    IF UndoAccepts(data, log)
    THEN SliceFirst(log, Len(log) - Get(data, "targetLength")[2])
    ELSE log

\* lines 212-215: the log an undo with payload `data` leaves of `log`
UndoLog(log, data) ==
    IF UndoAccepts(data, log)
    THEN Truncated(log, Get(data, "targetLength")[2])
    ELSE log

\* an emit that skips the sender
UndoTargetsWithoutSender(s) == connected \ {s}

\* io.emit (line 216): every connected session, the sender `s` included
UndoTargets(s) == connected

\* an undo that saves the log it leaves
UndoWritesSaved(ws, log) ==
    IF Len(ws) < MaxWrites
    THEN Append(ws, [content |-> Stringify(log), owner |-> "undo"])
    ELSE ws

\* lines 210-224 call no saveCanvasData: the writes in flight after an undo
\* that leaves `log` are the writes `ws` in flight before it
UndoWrites(ws, log) == ws

\* lines 210-224
UndoHandler(s, data) ==
    /\ s \in connected
    /\ IF UndoAccepts(data, canvasData)
       THEN /\ Room(UndoTargets(s))
            /\ canvasData' = UndoLog(canvasData, data)
            /\ outbox' = Emit(outbox, UndoTargets(s),
                              Event("canvas-data", Arr(canvasData')))
            /\ lastOp' = OpArg("undo", data, "truncated")
       ELSE /\ lastOp' = OpArg("undo", data, "ignored")
            /\ UNCHANGED <<canvasData, outbox>>
    /\ writes' = UndoWrites(writes, canvasData')
    /\ UNCHANGED <<connected, greeting, disk, idCount, today,
                   lastResetDate, submitted, posts, phase, foreign>>

Undo(s, data) == UndoHandler(s, data) /\ UNCHANGED <<client, sent>>

\* an answer that goes to every session
SyncTargetsAll(s) == connected

\* socket.emit (line 229): the session that asked
SyncTargets(s) == {s}

\* lines 227-233
RequestSync(s) ==
    /\ s \in connected
    /\ Room(SyncTargets(s))
    /\ outbox' = Emit(outbox, SyncTargets(s),
                      Event("canvas-data", LogValue))
    /\ lastOp' = Op("request-sync", "sent")
    /\ UNCHANGED <<canvasData, connected, greeting, disk, writes, idCount,
                   today, lastResetDate, submitted, posts, phase, client, sent, foreign>>

\* a test that is true whatever the day
ResetDueAlways(last, day) == TRUE

\* line 155; toDateString() is never an empty string, so the test
\* !global.lastResetDate is always false
ResetDue(last, day) == last # day

\* a handler that leaves the stored date as it was
StoredResetDateKept(last, day) == last

\* line 156: global.lastResetDate = today, in the same turn as the test of
\* line 155 (the first await of the handler is at line 159)
StoredResetDate(last, day) == day

\* lines 152-166
DailyReset(s) ==
    /\ s \in connected
    /\ IF ResetDue(lastResetDate, today)
       THEN /\ Room(connected)
            /\ lastResetDate' = StoredResetDate(lastResetDate, today)
            /\ canvasData' = <<>>
            /\ outbox' = Emit(outbox, connected,
                              Event("canvas-cleared", Undefined))
            /\ foreign' = NotForeign
            /\ IssueWrite(<<>>, "reset")
            /\ lastOp' = Op("daily-reset", "cleared")
       ELSE /\ lastOp' = Op("daily-reset", "ignored")
            /\ UNCHANGED <<lastResetDate, canvasData, outbox, writes, foreign>>
    /\ UNCHANGED <<connected, greeting, disk, idCount, today, submitted, posts,
                   phase, client, sent>>

(***************************************************************************)
(* POST /api/canvas/restore and POST /api/sync-canvas                      *)
(* (src/server.js:299-331).                                                *)
(***************************************************************************)
\* a stroke of an earlier export (GET /api/canvas/backup)
BackupStroke(n) ==
    Obj([x0 |-> Num(n), y0 |-> Num(0), x1 |-> Num(n), y1 |-> Num(5),
         color |-> Str("#000"), size |-> Num(2), tool |-> Str("pen"),
         timestamp |-> Num(1), id |-> Str("bak" \o ToString(n)),
         userId |-> Str("A"), type |-> Str("draw")])

\* an array one longer than the bound
LongArray == [i \in 1..(MAX_STROKES + 1) |-> BackupStroke(i)]

RestoreInputs ==
    { Obj([data |-> Arr(<<>>)]),
      Obj([data |-> Arr(<<BackupStroke(1), Str("junk")>>)]),
      Obj([data |-> Arr(LongArray)]),
      Obj([data |-> Str("not-an-array")]),
      Obj([data |-> Obj(<<>>)]),
      Obj([version |-> Str("1.0.1")]) }

SyncInputs ==
    { Arr(<<FullPayload>>),
      Arr(<<BackupStroke(1), BarePayload>>),
      Arr(LongArray),
      Obj([data |-> Arr(<<FullPayload>>)]) }

\* a restore that adds the array to the log
RestoredLogMerged(log, data) == log \o data

\* line 304: the array replaces the log
RestoredLog(log, data) == data

\* a check by typeof, which lets every object through
RestoreRejectsNonObjects(body) == TypeOf(Get(body, "data")) # "object"

\* the guard of line 302
RestoreRejects(body) == ~IsArray(Get(body, "data"))

\* lines 299-305: up to the await of saveCanvasData; lines 306-309 run when
\* that write has settled (WriteSettles)
Restore(body) ==
    /\ phase = "listening"
    /\ posts < MaxPosts
    /\ posts' = posts + 1
    /\ IF RestoreRejects(body)
       THEN /\ lastOp' = Op("restore", "400")
            /\ UNCHANGED <<canvasData, writes, foreign>>
       ELSE /\ canvasData' = RestoredLog(canvasData, Get(body, "data")[2])
            /\ foreign' = NotForeign
            /\ IssueWrite(canvasData', "restore")
            /\ lastOp' = Op("restore", "replaced")
    /\ UNCHANGED <<connected, greeting, outbox, disk, idCount, today,
                   lastResetDate, submitted, phase, client, sent>>

\* a sync that puts the offline strokes in front of the log
SyncedLogPrepended(log, strokes) == strokes \o log

\* line 320: canvasData.push(...offlineStrokes)
SyncedLog(log, strokes) == log \o strokes

\* lines 316-331
SyncCanvas(body) ==
    /\ phase = "listening"
    /\ posts < MaxPosts
    /\ posts' = posts + 1
    /\ IF IsArray(body) /\ foreign # NotForeign
       THEN \* canvasData.push is no function (line 320): the catch of line 328
            /\ lastOp' = Op("sync-canvas", "500")
            /\ UNCHANGED <<canvasData, outbox>>
       ELSE IF IsArray(body)
       THEN /\ Room(connected)
            /\ canvasData' = Trim(SyncedLog(canvasData, body[2]))
            /\ outbox' = Emit(outbox, connected,
                              Event("canvas-data", Arr(canvasData')))
            /\ lastOp' = Op("sync-canvas", "200")
       ELSE /\ lastOp' = Op("sync-canvas", "400")
            /\ UNCHANGED <<canvasData, outbox>>
    /\ UNCHANGED <<connected, greeting, disk, writes, idCount, today,
                   lastResetDate, submitted, phase, client, sent, foreign>>

(***************************************************************************)
(* Startup (src/server.js:68-85, 341-352).                                 *)
(***************************************************************************)
\* the files a process may find when it starts: none, an unreadable one, a
\* cut-off one, and arrays as the server writes them (of strokes, of what a
\* restore or an offline sync brought in)
Snapshots ==
    { NoFile, Unreadable, Partial,
      Stringify(<<>>),
      Stringify(<<BackupStroke(1), BackupStroke(2)>>),
      Stringify(<<Str("junk"), BackupStroke(1)>>),
      Stringify(<<Null>>),
      Stringify(<<FullPayload>>) }

\* a test that takes the strokes of today for old ones as well
NotAfterToday(first, day) == DateString(Get(first, "timestamp")) <= day

\* lines 75-76: dataDate !== today
FromOtherDay(first, day) == DateString(Get(first, "timestamp")) # day

\* a load that keeps whatever array the file holds, of whatever day
LoadedLogOfAnyDay(file, day) == IF file[1] # "json" THEN <<>> ELSE file[2][2]

\* the log loadCanvasData leaves (lines 68-85) when the file is `file` on
\* the day `day`, when canvasData is an array then (with LoadedForeign for
\* a file that holds another value, the log is kept empty here).  The catch
\* of line 81 takes the failure of readFile and of JSON.parse, and the
\* TypeError of canvasData[0].timestamp when the first element is null
LoadedLog(file, day) ==
    IF file[1] # "json" \/ file[2][1] # "array"
    THEN <<>>
    ELSE LET parsed == file[2][2]
         IN  IF Len(parsed) = 0 THEN parsed
             ELSE IF parsed[1] = Null THEN <<>>
             ELSE IF /\ Truthy(Get(parsed[1], "timestamp"))
                     /\ FromOtherDay(parsed[1], day)
                  THEN <<>>
                  ELSE parsed

\* lines 71-80 when JSON.parse gives no array: null.length throws (line 72)
\* and the catch of line 81 starts fresh; of any other value .length is
\* undefined (the objects here have no such property), the test of line 74
\* is false and canvasData keeps the value
LoadedForeign(file) ==
    IF file[1] # "json" \/ file[2][1] \in {"array", "null"}
    THEN NotForeign
    ELSE file[2]

\* a start that gives up when the file cannot be read or parsed
AfterLoadStrict(file) == IF file[1] = "json" THEN "listening" ELSE "exited"

\* lines 341-352: loadCanvasData catches every error itself, so its promise
\* is always fulfilled and the server goes on to listen
AfterLoad(file) == "listening"

\* loadCanvasData() and the then() of line 341
LoadCanvasData ==
    /\ phase = "loading"
    /\ canvasData' = LoadedLog(disk, today)
    /\ foreign' = LoadedForeign(disk)
    /\ phase' = AfterLoad(disk)
    /\ lastOp' = Op("load", IF disk[1] = "json" THEN "parsed" ELSE "fresh")
    /\ UNCHANGED <<connected, greeting, outbox, disk, writes, idCount, today,
                   lastResetDate, submitted, posts, client, sent>>

\* the file a killed process leaves: as it was, or cut off by a write that
\* was under way, or with the text of such a write
KillOutcomes ==
    IF writes = <<>>
    THEN {disk}
    ELSE {disk, Partial} \cup {writes[i].content : i \in 1..Len(writes)}

\* the process is killed and started again: lines 37, 63 and 341 run anew
Restart ==
    /\ phase \in {"listening", "exited"}
    /\ phase' = "loading"
    /\ canvasData' = <<>>
    /\ connected' = {}
    /\ greeting' = {}
    /\ outbox' = [s \in Sessions |-> <<>>]
    /\ disk' \in KillOutcomes
    /\ writes' = <<>>
    /\ lastResetDate' = today
    /\ foreign' = NotForeign
    /\ lastOp' = Op("restart", "-")
    /\ UNCHANGED <<idCount, today, submitted, posts, client, sent>>

(***************************************************************************)
(* Connections (src/server.js:113-119, 236-238) and the passing of time.   *)
(***************************************************************************)
\* io.on('connection'): the 200 ms timer of line 116 is started; the server
\* listens only when the load is through (lines 341-343)
Connect(s) ==
    /\ phase = "listening"
    /\ s \notin connected
    /\ connected' = connected \cup {s}
    /\ greeting' = greeting \cup {s}
    /\ lastOp' = Op("connect", "-")
    /\ UNCHANGED <<canvasData, outbox, disk, writes, idCount, today,
                   lastResetDate, submitted, posts, phase, client, sent, foreign>>

\* a greeting that goes to every session
GreetTargetsAll(s) == connected

\* socket.emit (line 118): the session that connected
GreetTargets(s) == {s}

\* the timer of lines 116-119 fires, whatever is on its way to the session
Greet(s) ==
    /\ s \in greeting
    /\ greeting' = greeting \ {s}
    /\ outbox' = Emit(outbox, GreetTargets(s),
                      Event("canvas-data", LogValue))
    /\ lastOp' = Op("greet", "sent")
    /\ UNCHANGED <<canvasData, connected, disk, writes, idCount, today,
                   lastResetDate, submitted, posts, phase, client, sent, foreign>>

\* the socket closes: what was on its way to the session is lost, and an
\* emit on the closed socket reaches nobody
Disconnect(s) ==
    /\ s \in connected
    /\ connected' = connected \ {s}
    /\ greeting' = greeting \ {s}
    /\ outbox' = [outbox EXCEPT ![s] = <<>>]
    /\ lastOp' = Op("disconnect", "-")
    /\ UNCHANGED <<canvasData, disk, writes, idCount, today, lastResetDate,
                   submitted, posts, phase, client, sent, foreign>>

\* the oldest event on the connection of a session reaches it
Delivered(s) ==
    /\ outbox[s] # <<>>
    /\ outbox' = [outbox EXCEPT ![s] = Tail(outbox[s])]
    /\ lastOp' = Op("deliver", outbox[s][1].event)
    /\ UNCHANGED <<canvasData, connected, greeting, disk, writes, idCount,
                   today, lastResetDate, submitted, posts, phase, foreign>>

\* the same, seen from the server: what the page does with the event is
\* left out
Deliver(s) == Delivered(s) /\ UNCHANGED <<client, sent>>

\* midnight passes
NextDay ==
    /\ today < MaxDay
    /\ today' = today + 1
    /\ lastOp' = Op("midnight", "-")
    /\ UNCHANGED <<canvasData, connected, greeting, outbox, disk, writes,
                   idCount, lastResetDate, submitted, posts, phase, client, sent, foreign>>

(***************************************************************************)
(* The process as the top level of server.js leaves it: the log empty, the *)
(* interval timer set, the load under way, whatever file is there.         *)
(***************************************************************************)
(***************************************************************************)
(* The page of a session (src/public/script.js).                           *)
(***************************************************************************)
MAX_UNDO_STEPS == 5

\* lines 28-30, and the saveState() that initCanvas runs (line 59)
NewClient == [allStrokes |-> <<>>, history |-> <<0>>, historyStep |-> 0]

\* lines 224-237: saveState(); history[i] of the script is history[i + 1]
SaveState(c) ==
    LET step == c.historyStep + 1
        kept == IF step < Len(c.history)
                THEN SubSeq(c.history, 1, step)
                ELSE c.history
        pushed == Append(kept, Len(c.allStrokes))
    IN  IF Len(pushed) > MAX_UNDO_STEPS
        THEN [c EXCEPT !.history = SliceLast(pushed, MAX_UNDO_STEPS),
                       !.historyStep = MAX_UNDO_STEPS - 1]
        ELSE [c EXCEPT !.history = pushed, !.historyStep = step]

\* lines 112-118: the n-th segment of the page of session s; each session
\* draws in a colour of its own
PageStroke(s, n, kind) ==
    Obj([x0 |-> Num(n), y0 |-> Num(0), x1 |-> Num(n + 1), y1 |-> Num(1),
         color |-> Str("#" \o s), size |-> Num(3),
         tool |-> Str(IF kind = "erase" THEN "eraser" ELSE "inkPen"),
         type |-> Str(kind), id |-> Str(s \o ToString(n))])

\* the draw and erase events on their way to the server
AppendsInFlight ==
    LET Count(q) == Cardinality({i \in 1..Len(q) :
                                    q[i].event \in {"draw", "erase"}})
    IN  Count(sent["A"]) + Count(sent["B"])

\* a gesture of one segment: draw() (lines 105-129) and the stopDrawing()
\* that ends it (lines 215-218)
PageDraw(s, kind) ==
    /\ s \in connected
    /\ Len(sent[s]) < MaxSent
    /\ idCount + AppendsInFlight < MaxIds
    /\ LET strokeData == PageStroke(s, Len(client[s].allStrokes), kind)
           drawn == [client[s] EXCEPT !.allStrokes = Append(@, strokeData)]
       IN  /\ client' = [client EXCEPT ![s] = SaveState(drawn)]
           /\ sent' = [sent EXCEPT ![s] = Append(@, Event(kind, strokeData))]
    /\ lastOp' = Op("page", kind)
    /\ UNCHANGED <<canvasData, connected, greeting, outbox, disk, writes,
                   idCount, today, lastResetDate, submitted, posts, phase, foreign>>

\* lines 240-256: undo(), when there is a step to go back to
PageUndo(s) ==
    /\ s \in connected
    /\ client[s].historyStep > 0
    /\ LET step == client[s].historyStep - 1
           targetLength == client[s].history[step + 1]
       IN  IF targetLength < Len(client[s].allStrokes)
           THEN /\ Len(sent[s]) < MaxSent
                /\ client' = [client EXCEPT
                       ![s].historyStep = step,
                       ![s].allStrokes = SubSeq(@, 1, targetLength)]
                /\ sent' = [sent EXCEPT
                       ![s] = Append(@, Event("undo", UndoTo(targetLength)))]
           ELSE /\ client' = [client EXCEPT ![s].historyStep = step]
                /\ UNCHANGED sent
    /\ lastOp' = Op("page", "undo")
    /\ UNCHANGED <<canvasData, connected, greeting, outbox, disk, writes,
                   idCount, today, lastResetDate, submitted, posts, phase, foreign>>

\* lines 259-264: clearCanvas()
PageClear(s) ==
    /\ s \in connected
    /\ Len(sent[s]) < MaxSent
    /\ client' = [client EXCEPT ![s] = NewClient]
    /\ sent' = [sent EXCEPT ![s] = Append(@, Event("clear", Undefined))]
    /\ lastOp' = Op("page", "clear")
    /\ UNCHANGED <<canvasData, connected, greeting, outbox, disk, writes,
                   idCount, today, lastResetDate, submitted, posts, phase, foreign>>

\* the server takes the oldest event a session has emitted and runs the
\* handler of that event (src/server.js:122, 169, 195, 210)
Handle(s) ==
    /\ sent[s] # <<>>
    /\ LET m == Head(sent[s])
       IN  CASE m.event = "draw" -> AppendHandler(s, m.payload, "draw")
             [] m.event = "erase" -> AppendHandler(s, m.payload, "erase")
             [] m.event = "undo" -> UndoHandler(s, m.payload)
             [] m.event = "clear" -> ClearHandler(s)
    /\ sent' = [sent EXCEPT ![s] = Tail(@)]
    /\ UNCHANGED <<client, submitted>>

\* lines 367-379: socket.on('canvas-data')
OnCanvasData(c, data) ==
    IF data[1] = "array"
    THEN [allStrokes |-> data[2], history |-> <<Len(data[2])>>,
          historyStep |-> 0]
    ELSE c

\* a page that keeps no more strokes than the server does
OnStrokeAddedTrimmed(c, strokeData) ==
    IF /\ Truthy(strokeData)
       /\ TypeOf(Get(strokeData, "x0")) = "number"
       /\ TypeOf(Get(strokeData, "y0")) = "number"
    THEN [c EXCEPT !.allStrokes = Trim(Append(@, strokeData))]
    ELSE c

\* lines 381-391: socket.on('stroke-added')
OnStrokeAdded(c, strokeData) ==
    IF /\ Truthy(strokeData)
       /\ TypeOf(Get(strokeData, "x0")) = "number"
       /\ TypeOf(Get(strokeData, "y0")) = "number"
    THEN [c EXCEPT !.allStrokes = Append(@, strokeData)]
    ELSE c

\* lines 393-399: socket.on('canvas-cleared')
OnCanvasCleared(c) == NewClient

\* the socket handlers of the page, by event
OnEvent(c, ev) ==
    CASE ev.event = "canvas-data" -> OnCanvasData(c, ev.payload)
      [] ev.event = "stroke-added" -> OnStrokeAdded(c, ev.payload)
      [] ev.event = "canvas-cleared" -> OnCanvasCleared(c)
      [] OTHER -> c

\* the oldest event on the connection reaches the page of the session, which
\* runs its handler
Receive(s) ==
    /\ Delivered(s)
    /\ client' = [client EXCEPT ![s] = OnEvent(@, outbox[s][1])]
    /\ UNCHANGED sent

Init ==
    /\ canvasData = <<>>
    /\ connected = {}
    /\ greeting = {}
    /\ outbox = [s \in Sessions |-> <<>>]
    /\ disk \in Snapshots
    /\ writes = <<>>
    /\ idCount = 0
    /\ today = 0
    /\ lastResetDate = 0
    /\ lastOp = NoOp
    /\ submitted = <<>>
    /\ posts = 0
    /\ phase = "loading"
    /\ client = [s \in Sessions |-> NewClient]
    /\ sent = [s \in Sessions |-> <<>>]
    /\ foreign = NotForeign

Next ==
    \/ \E s \in Sessions, data \in DrawInputs : Draw(s, data)
    \/ \E s \in Sessions, data \in DrawInputs : Erase(s, data)
    \/ \E s \in Sessions : Clear(s)
    \/ \E s \in Sessions, data \in UndoInputs : Undo(s, data)
    \/ \E s \in Sessions : RequestSync(s)
    \/ \E s \in Sessions : DailyReset(s)
    \/ \E body \in RestoreInputs : Restore(body)
    \/ \E body \in SyncInputs : SyncCanvas(body)
    \/ IntervalSave
    \/ \E i \in 1..MaxWrites, outcome \in WriteOutcomes : WriteSettles(i, outcome)
    \/ \E s \in Sessions : Connect(s)
    \/ \E s \in Sessions : Greet(s)
    \/ \E s \in Sessions : Disconnect(s)
    \/ \E s \in Sessions : Deliver(s)
    \/ NextDay
    \/ LoadCanvasData
    \/ Restart
    \/ Signal
    \/ \E s \in Sessions, kind \in {"draw", "erase"} : PageDraw(s, kind)
    \/ \E s \in Sessions : PageUndo(s)
    \/ \E s \in Sessions : PageClear(s)
    \/ \E s \in Sessions : Handle(s)
    \/ \E s \in Sessions : Receive(s)

Spec == Init /\ [][Next]_vars

(***************************************************************************)
(* Focused specifications.  Each takes its steps from the actions above    *)
(* and restricts the inputs or the scheduling, so each of its behaviours   *)
(* is a behaviour of Spec.                                                 *)
(***************************************************************************)
\* the server with the sessions of `cs` connected and greeted
\* the server listening after a start without a file, `cs` connected
InitWith(cs) ==
    /\ canvasData = <<>>
    /\ connected = cs
    /\ greeting = {}
    /\ outbox = [s \in Sessions |-> <<>>]
    /\ disk = NoFile
    /\ writes = <<>>
    /\ idCount = 0
    /\ today = 0
    /\ lastResetDate = 0
    /\ lastOp = NoOp
    /\ submitted = <<>>
    /\ posts = 0
    /\ phase = "listening"
    /\ client = [s \in Sessions |-> NewClient]
    /\ sent = [s \in Sessions |-> <<>>]
    /\ foreign = NotForeign

\* no file write is in flight
NoWrites == writes = <<>>

\* no event is on its way to a session
AllDelivered == \A s \in Sessions : outbox[s] = <<>>

\* no event is on its way to the server
AllHandled == \A s \in Sessions : sent[s] = <<>>

\* --- draw and erase only, with the history of the submissions -----------
TrackedAppend(s, data, kind) ==
    /\ AppendHandler(s, data, kind)
    /\ submitted' = IF ValidGeometry(data)
                    THEN Append(submitted,
                                [sid |-> s, data |-> data, kind |-> kind])
                    ELSE submitted
    /\ UNCHANGED <<client, sent>>

InitAppend == InitWith(Sessions)

NextAppend ==
    \/ AllDelivered
         /\ \E s \in Sessions, data \in DrawInputs : TrackedAppend(s, data, "draw")
    \/ AllDelivered
         /\ \E s \in Sessions, data \in DrawInputs : TrackedAppend(s, data, "erase")
    \/ \E s \in Sessions : Deliver(s)

SpecAppend == InitAppend /\ [][NextAppend]_vars

\* --- the log under every operation that changes it -----------------------
\* one session; a handler starts when the events and file writes of the
\* earlier ones are through
InitLog == InitWith({"A"})

NextLog ==
    \/ NoWrites /\ AllDelivered
         /\ \E s \in Sessions, data \in DrawInputs : Draw(s, data)
    \/ NoWrites /\ AllDelivered
         /\ \E s \in Sessions, data \in DrawInputs : Erase(s, data)
    \/ NoWrites /\ AllDelivered /\ \E s \in Sessions : Clear(s)
    \/ NoWrites /\ AllDelivered
         /\ \E s \in Sessions, data \in UndoInputs : Undo(s, data)
    \/ NoWrites /\ AllDelivered /\ \E body \in RestoreInputs : Restore(body)
    \/ NoWrites /\ AllDelivered /\ \E body \in SyncInputs : SyncCanvas(body)
    \/ \E i \in 1..MaxWrites : WriteSettles(i, "written")
    \/ \E s \in Sessions : Deliver(s)

SpecLog == InitLog /\ [][NextLog]_vars

\* --- sessions and broadcast ----------------------------------------------
\* sessions leave and events wait in the connections; a handler starts when
\* earlier file writes have settled
CastPayloads == {FullPayload, Undefined}

InitCast == InitWith(Sessions)

NextCast ==
    \/ NoWrites /\ \E s \in Sessions, data \in CastPayloads : Draw(s, data)
    \/ NoWrites /\ \E s \in Sessions, data \in CastPayloads : Erase(s, data)
    \/ NoWrites /\ \E s \in Sessions : Clear(s)
    \/ NoWrites /\ \E s \in Sessions, data \in UndoInputs : Undo(s, data)
    \/ \E i \in 1..MaxWrites : WriteSettles(i, "written")
    \/ \E s \in Sessions : Disconnect(s)
    \/ \E s \in Sessions : Deliver(s)

SpecCast == InitCast /\ [][NextCast]_vars

\* --- persistence -----------------------------------------------------------
\* one session, whose events are received at once; file writes overlap and
\* settle in any order, with any outcome
InitSave == InitWith({"A"})

NextSave ==
    \/ AllDelivered /\ \E s \in Sessions : Draw(s, FullPayload)
    \/ AllDelivered /\ \E s \in Sessions : Clear(s)
    \/ IntervalSave
    \/ \E i \in 1..MaxWrites, outcome \in WriteOutcomes : WriteSettles(i, outcome)
    \/ \E s \in Sessions : Deliver(s)

SpecSave == InitSave /\ [][NextSave]_vars

\* the same with a storage that never fails: every write is written in full
NextOverlap ==
    \/ AllDelivered /\ \E s \in Sessions : Draw(s, FullPayload)
    \/ AllDelivered /\ \E s \in Sessions : Clear(s)
    \/ IntervalSave
    \/ \E i \in 1..MaxWrites : WriteSettles(i, "written")
    \/ \E s \in Sessions : Deliver(s)

SpecOverlap == InitSave /\ [][NextOverlap]_vars

\* --- sessions that come and go --------------------------------------------
\* nobody is connected at first; the 200 ms timer of a connection fires in
\* the end (WF), as every timer of the event loop does
InitJoin == InitWith({})

NextJoin ==
    \/ \E s \in Sessions : Connect(s)
    \/ \E s \in Sessions : Greet(s)
    \/ \E s \in Sessions : RequestSync(s)
    \/ AllDelivered /\ \E s \in Sessions : Draw(s, FullPayload)
    \/ AllDelivered /\ \E body \in SyncInputs : SyncCanvas(body)
    \/ \E s \in Sessions : Disconnect(s)
    \/ \E s \in Sessions : Deliver(s)

SpecJoin ==
    /\ InitJoin
    /\ [][NextJoin]_vars
    /\ \A s \in Sessions : WF_vars(Greet(s))

\* --- the daily reset ------------------------------------------------------
\* days pass while two sessions draw and ask for the reset; a handler starts
\* when earlier file writes have settled
NextDaily ==
    \/ NoWrites /\ AllDelivered /\ \E s \in Sessions : Draw(s, FullPayload)
    \/ NoWrites /\ \E s \in Sessions : DailyReset(s)
    \/ NextDay
    \/ \E i \in 1..MaxWrites : WriteSettles(i, "written")
    \/ \E s \in Sessions : Disconnect(s)
    \/ \E s \in Sessions : Deliver(s)

SpecDaily == InitCast /\ [][NextDaily]_vars

\* --- daily resets that overlap ---------------------------------------------
\* a session asks for the reset while the save of an earlier reset is still
\* under way; writes may fail
NextResets ==
    \/ NoWrites /\ AllDelivered /\ \E s \in Sessions : Draw(s, FullPayload)
    \/ \E s \in Sessions : DailyReset(s)
    \/ NextDay
    \/ \E i \in 1..MaxWrites, outcome \in WriteOutcomes : WriteSettles(i, outcome)
    \/ \E s \in Sessions : Deliver(s)

SpecResets == InitCast /\ [][NextResets]_vars

\* --- starts and restarts --------------------------------------------------
\* the process starts on whatever file is there, sessions draw, the interval
\* timer saves, days pass, and the process is killed and started again
NextBoot ==
    \/ LoadCanvasData
    \/ \E s \in Sessions : Connect(s)
    \/ NoWrites /\ AllDelivered /\ \E s \in Sessions : Draw(s, FullPayload)
    \/ NoWrites /\ IntervalSave
    \/ \E i \in 1..MaxWrites, outcome \in WriteOutcomes : WriteSettles(i, outcome)
    \/ NextDay
    \/ Restart
    \/ \E s \in Sessions : Deliver(s)

SpecBoot == Init /\ [][NextBoot]_vars

\* --- saves around the start ------------------------------------------------
\* the signal handlers (lines 101-110) are set up before loadCanvasData is
\* called (line 341) and can run while it waits for the file; so is the
\* interval timer (line 98), whose first tick comes 30 s after the start and
\* is taken here to find the load completed
NextEarly ==
    \/ LoadCanvasData
    \/ \E s \in Sessions : Connect(s)
    \/ NoWrites /\ AllDelivered /\ \E s \in Sessions : Draw(s, FullPayload)
    \/ phase = "listening" /\ IntervalSave
    \/ Signal
    \/ \E i \in 1..MaxWrites, outcome \in WriteOutcomes : WriteSettles(i, outcome)
    \/ Restart
    \/ \E s \in Sessions : Deliver(s)

SpecEarly == Init /\ [][NextEarly]_vars

\* --- handlers that run while a save is awaited ---------------------------
\* as the log operations above, but a handler starts whether or not a file
\* write is under way
NextAwait ==
    \/ AllDelivered /\ \E s \in Sessions : Draw(s, FullPayload)
    \/ AllDelivered /\ \E s \in Sessions, data \in UndoInputs : Undo(s, data)
    \/ AllDelivered /\ \E body \in RestoreInputs : Restore(body)
    \/ AllDelivered /\ \E body \in SyncInputs : SyncCanvas(body)
    \/ \E i \in 1..MaxWrites : WriteSettles(i, "written")
    \/ \E s \in Sessions : Deliver(s)

SpecAwait == InitCast /\ [][NextAwait]_vars

\* --- writes that fail ----------------------------------------------------
\* every caller of saveCanvasData, one write at a time, with writes that
\* succeed, fail or stop half way
RestoredArrays == {Obj([data |-> Arr(<<BackupStroke(1)>>)])}

NextFail ==
    \/ NoWrites /\ AllDelivered /\ \E s \in Sessions : Draw(s, FullPayload)
    \/ NoWrites /\ AllDelivered /\ \E s \in Sessions : Clear(s)
    \/ NoWrites /\ AllDelivered /\ \E s \in Sessions : DailyReset(s)
    \/ NoWrites /\ AllDelivered /\ \E body \in RestoredArrays : Restore(body)
    \/ NextDay
    \/ NoWrites /\ IntervalSave
    \/ \E i \in 1..MaxWrites, outcome \in WriteOutcomes : WriteSettles(i, outcome)
    \/ \E s \in Sessions : Deliver(s)

SpecFail == InitCast /\ [][NextFail]_vars

\* --- shutdown ------------------------------------------------------------
\* one session draws, the interval timer saves, a signal arrives; a write
\* that a signal handler awaits settles in the end (WF), as fs.writeFile
\* resolves or rejects in the end
ShutdownSaveSettles ==
    \E i \in 1..MaxWrites, outcome \in WriteOutcomes :
        /\ i \in 1..Len(writes)
        /\ writes[i].owner = "shutdown"
        /\ WriteSettles(i, outcome)

NextStop ==
    \/ AllDelivered /\ \E s \in Sessions : Draw(s, FullPayload)
    \/ AllDelivered /\ \E s \in Sessions : Clear(s)
    \/ IntervalSave
    \/ Signal
    \/ \E i \in 1..MaxWrites, outcome \in WriteOutcomes : WriteSettles(i, outcome)
    \/ \E s \in Sessions : Deliver(s)

SpecStop ==
    /\ InitSave
    /\ [][NextStop]_vars
    /\ WF_vars(ShutdownSaveSettles)

\* --- what saves and what does not ------------------------------------------
\* every socket event and both POST endpoints, the interval timer and a
\* signal; a step starts when the events sent before have been received
\* and the writes issued before have ended; midnight passes before the
\* first stroke is drawn
Calm == NoWrites /\ AllDelivered

FramePosts == {Arr(<<FullPayload>>)}

NextFrame ==
    \/ Calm /\ \E s \in Sessions : Draw(s, FullPayload)
    \/ Calm /\ \E s \in Sessions : Erase(s, FullPayload)
    \/ Calm /\ \E s \in Sessions, k \in 0..1 : Undo(s, UndoTo(k))
    \/ Calm /\ \E s \in Sessions : RequestSync(s)
    \/ Calm /\ \E body \in FramePosts : SyncCanvas(body)
    \/ Calm /\ \E s \in Sessions : Clear(s)
    \/ Calm /\ \E s \in Sessions : DailyReset(s)
    \/ Calm /\ \E body \in RestoredArrays : Restore(body)
    \/ Calm /\ idCount = 0 /\ NextDay
    \/ Calm /\ IntervalSave
    \/ Calm /\ Signal
    \/ \E i \in 1..MaxWrites, outcome \in WriteOutcomes : WriteSettles(i, outcome)
    \/ \E s \in Sessions : Deliver(s)

SpecFrame == InitSave /\ [][NextFrame]_vars

\* --- saves that overlap, every change of the log being saved ---------------
\* the log changes by clear and restore only, which both save it; the
\* interval timer and a signal save it as well; every write is written in
\* full.  So the save issued last has always captured the log as it is
InitLatest == InitWith({"A"})

NextLatest ==
    \/ AllDelivered /\ \E s \in Sessions : Clear(s)
    \/ AllDelivered /\ \E body \in RestoredArrays : Restore(body)
    \/ IntervalSave
    \/ Signal
    \/ \E i \in 1..MaxWrites : WriteSettles(i, "written")
    \/ \E s \in Sessions : Deliver(s)

SpecLatest == InitLatest /\ [][NextLatest]_vars

\* --- the interval timer keeps firing --------------------------------------
\* a session draws and clears while the timer saves; the timer fires again
\* and again (setInterval, line 98) and every fs.writeFile ends, the oldest
\* in flight at the latest when it has become the only one
OldestWriteSettles == \E outcome \in WriteOutcomes : WriteSettles(1, outcome)

NextDurable ==
    \/ AllDelivered /\ \E s \in Sessions : Draw(s, FullPayload)
    \/ AllDelivered /\ \E s \in Sessions : Clear(s)
    \/ IntervalSave
    \/ \E i \in 1..MaxWrites, outcome \in WriteOutcomes : WriteSettles(i, outcome)
    \/ \E s \in Sessions : Deliver(s)

SpecDurable ==
    /\ InitSave
    /\ [][NextDurable]_vars
    /\ WF_vars(IntervalSave)
    /\ WF_vars(OldestWriteSettles)

\* --- starts on a file of any content --------------------------------------
\* the file is absent, unreadable, an array of strokes, or JSON of another
\* kind: null, a number, or an object such as the export of
\* GET /api/canvas/backup
LoadFiles ==
    { NoFile, Unreadable,
      Stringify(<<BackupStroke(1)>>),
      JsonText(Null),
      JsonText(Num(5)),
      JsonText(Obj([data |-> Arr(<<BackupStroke(1)>>)])) }

InitLoad ==
    /\ canvasData = <<>>
    /\ connected = {}
    /\ greeting = {}
    /\ outbox = [s \in Sessions |-> <<>>]
    /\ disk \in LoadFiles
    /\ writes = <<>>
    /\ idCount = 0
    /\ today = 0
    /\ lastResetDate = 0
    /\ lastOp = NoOp
    /\ submitted = <<>>
    /\ posts = 0
    /\ phase = "loading"
    /\ client = [s \in Sessions |-> NewClient]
    /\ sent = [s \in Sessions |-> <<>>]
    /\ foreign = NotForeign

NextLoad ==
    \/ LoadCanvasData
    \/ \E s \in Sessions : Connect(s)
    \/ \E s \in Sessions : Greet(s)
    \/ NoWrites /\ AllDelivered /\ \E s \in Sessions : Draw(s, FullPayload)
    \/ NoWrites /\ AllDelivered /\ \E s \in Sessions : Clear(s)
    \/ NoWrites /\ IntervalSave
    \/ \E i \in 1..MaxWrites : WriteSettles(i, "written")
    \/ \E s \in Sessions : Deliver(s)

SpecLoad == InitLoad /\ [][NextLoad]_vars

\* --- the pages and the server --------------------------------------------
\* two sessions draw, undo and clear on their pages; the events travel to
\* the server and back; a backup is restored meanwhile
InitPage == InitWith(Sessions)

NextPage ==
    \/ \E s \in Sessions : PageDraw(s, "draw")
    \/ \E s \in Sessions : PageUndo(s)
    \/ \E s \in Sessions : PageClear(s)
    \/ NoWrites /\ \E s \in Sessions : Handle(s)
    \/ NoWrites /\ \E body \in RestoredArrays : Restore(body)
    \/ \E i \in 1..MaxWrites : WriteSettles(i, "written")
    \/ \E s \in Sessions : Receive(s)

SpecPage == InitPage /\ [][NextPage]_vars

\* --- the pages, drawing only ----------------------------------------------
InitTrim == InitWith(Sessions)

NextTrim ==
    \/ \E s \in Sessions, kind \in {"draw", "erase"} : PageDraw(s, kind)
    \/ \E s \in Sessions : Handle(s)
    \/ \E s \in Sessions : Receive(s)

SpecTrim == InitTrim /\ [][NextTrim]_vars

\* --- what clients bring into the log -------------------------------------
\* strokes come in by draw, by erase and by the offline sync
StampPayloads == {FullPayload, ForgedPayload}

NextStamp ==
    \/ AllDelivered
         /\ \E s \in Sessions, data \in StampPayloads : Draw(s, data)
    \/ AllDelivered
         /\ \E s \in Sessions, data \in StampPayloads : Erase(s, data)
    \/ AllDelivered /\ \E body \in SyncInputs : SyncCanvas(body)
    \/ \E s \in Sessions : Deliver(s)

SpecStamp == InitCast /\ [][NextStamp]_vars


(***************************************************************************)
(* Properties.                                                             *)
(***************************************************************************)
Min(a, b) == IF a < b THEN a ELSE b

GeometryFields == {"x0", "y0", "x1", "y1"}
PayloadFields == GeometryFields \cup {"color", "size", "tool"}

\* the stroke `st` is the submission `sub`, stamped as the n-th stroke
IsStamped(st, sub, n) ==
    /\ \A f \in PayloadFields : Get(st, f) = Get(sub.data, f)
    /\ Get(st, "userId") = Str(sub.sid)
    /\ Get(st, "type") = Str(sub.kind)
    /\ Get(st, "id") = generateId(n)

\* C1: from an empty log, after N valid draw/erase submissions the log has
\* min(N, MAX_STROKES) entries, which are the most recent submissions in the
\* order they were processed; once N exceeds MAX_STROKES the first
\* submission is no longer in the log.
LogIsRecentSubmissions ==
    LET n == Len(submitted)
        m == Min(n, MAX_STROKES)
    IN  /\ Len(canvasData) = m
        /\ \A i \in 1..m : IsStamped(canvasData[i], submitted[n - m + i], n - m + i)
        /\ n > MAX_STROKES =>
             \A i \in 1..m : Get(canvasData[i], "id") # generateId(1)

\* one submission more than the bound has been processed
TrimmedAfterAppends ==
    /\ Len(submitted) = MAX_STROKES + 1
    /\ Len(canvasData) = MAX_STROKES

\* C2: when a draw or erase handler has appended, whatever the log was
\* before, the log is at most MAX_STROKES long and is the tail of (the log
\* before, then the new stroke): only a prefix was removed.
AppendKeepsTail ==
    [][ (lastOp'.op \in {"draw", "erase"} /\ lastOp'.res = "appended") =>
          LET new  == canvasData'[Len(canvasData')]
              full == Append(canvasData, new)
              keep == Min(Len(full), MAX_STROKES)
          IN  /\ Len(canvasData') = keep
              /\ Len(canvasData') <= MAX_STROKES
              /\ \A i \in 1..keep :
                    canvasData'[i] = full[Len(full) - keep + i] ]_vars

\* a draw has been appended to a log that a restore had left over the bound
AppendedToRestoredLog ==
    /\ lastOp = Op("draw", "appended")
    /\ Len(canvasData) = MAX_STROKES
    /\ canvasData[1] = BackupStroke(MAX_STROKES + 1)
    /\ Get(canvasData[MAX_STROKES], "id") = generateId(1)

\* the target of an undo lies in the range 0 <= targetLength < length
TargetInRange(data, log) ==
    /\ TypeOf(Get(data, "targetLength")) = "number"
    /\ Get(data, "targetLength")[2] >= 0
    /\ Get(data, "targetLength")[2] < Len(log)

\* C3: an undo with 0 <= targetLength < length, 0 included, leaves exactly
\* the first targetLength entries of the log.
UndoTruncatesToTarget ==
    [][ (lastOp'.op = "undo" /\ TargetInRange(lastOp'.arg, canvasData)) =>
          LET k == Get(lastOp'.arg, "targetLength")[2]
          IN  /\ Len(canvasData') = k
              /\ canvasData' = SubSeq(canvasData, 1, k) ]_vars

\* C4: an undo whose targetLength is outside 0 <= targetLength < length
\* (negative, too large, missing, not a number) leaves the log as it is and
\* sends nothing to any session; no undo makes the log longer.
UndoOutOfRangeIsNoOp ==
    [][ lastOp'.op = "undo" =>
          /\ Len(canvasData') <= Len(canvasData)
          /\ ~TargetInRange(lastOp'.arg, canvasData) =>
                (canvasData' = canvasData /\ outbox' = outbox) ]_vars

\* an undo beyond the end of a full log has been ignored
UndoBeyondEndIgnored ==
    /\ lastOp = OpArg("undo", Obj([targetLength |-> Num(MAX_STROKES + 2)]), "ignored")
    /\ Len(canvasData) = MAX_STROKES
    /\ connected = Sessions

\* C5: an undo that truncates sends exactly one canvas-data event, carrying
\* the truncated log, to every connected session, the sender included.
UndoBroadcastsLog ==
    [][ (lastOp'.op = "undo" /\ lastOp'.res = "truncated") =>
          \A t \in Sessions :
             outbox'[t] = IF t \in connected
                          THEN Append(outbox[t],
                                      Event("canvas-data", Arr(canvasData')))
                          ELSE outbox[t] ]_vars

\* an undo has cut a log of two strokes to one and both sessions hold the
\* snapshot
UndoSnapshotAtBoth ==
    /\ lastOp.op = "undo" /\ lastOp.res = "truncated"
    /\ Len(canvasData) = 1
    /\ \A t \in Sessions :
          /\ t \in connected
          /\ outbox[t] = <<Event("canvas-data", Arr(canvasData))>>

\* C6: for a valid draw or erase of session s, every other connected session
\* is sent exactly one stroke-added event with the geometry of the payload
\* and the id and timestamp the server assigned, and s is sent nothing.
StrokeGoesToOthersOnly ==
    [][ \A s \in Sessions, data \in ValidPayloads, kind \in {"draw", "erase"} :
          AppendHandler(s, data, kind) =>
             /\ outbox'[s] = outbox[s]
             /\ \A t \in Sessions \ {s} :
                   IF t \in connected
                   THEN /\ Len(outbox'[t]) = Len(outbox[t]) + 1
                        /\ SubSeq(outbox'[t], 1, Len(outbox[t])) = outbox[t]
                        /\ LET ev == outbox'[t][Len(outbox'[t])]
                           IN  /\ ev.event = "stroke-added"
                               /\ \A f \in GeometryFields :
                                     Get(ev.payload, f) = Get(data, f)
                               /\ Get(ev.payload, "id") = generateId(idCount')
                               /\ Get(ev.payload, "timestamp") = DateNow
                   ELSE outbox'[t] = outbox[t] ]_vars

\* a stroke of one session is on its way to the other session and nothing
\* is on its way to the sender
StrokeOnItsWayToOther ==
    /\ lastOp.res = "appended"
    /\ connected = Sessions
    /\ \E s \in Sessions : \E t \in Sessions \ {s} :
          /\ outbox[s] = <<>>
          /\ Len(outbox[t]) = 1
          /\ outbox[t][1].event = "stroke-added"
          /\ Get(outbox[t][1].payload, "userId") = Str(s)

\* C7: a clear from any session, in any state of the log, empties the log
\* and sends canvas-cleared to every connected session, the sender included.
ClearEmptiesAndTellsAll ==
    [][ \A s \in Sessions :
          Clear(s) =>
             /\ Len(canvasData') = 0
             /\ outbox'[s] = Append(outbox[s], Event("canvas-cleared", Undefined))
             /\ \A t \in Sessions :
                   outbox'[t] = IF t \in connected
                                THEN Append(outbox[t],
                                            Event("canvas-cleared", Undefined))
                                ELSE outbox[t] ]_vars

\* a clear after some strokes: the log is empty and both sessions have the
\* signal on its way
ClearedAtBoth ==
    /\ lastOp = Op("clear", "cleared")
    /\ idCount > 0
    /\ canvasData = <<>>
    /\ \A t \in Sessions :
          /\ t \in connected
          /\ outbox[t] = <<Event("canvas-cleared", Undefined)>>

\* C8: once the clear handler has completed (its write has settled) and no
\* operation has been processed since, the file holds the empty log.  With
\* draw and clear as the only operations, an empty log after a stroke means
\* that a clear was the last operation.
ClearIsDurable ==
    ( /\ idCount > 0
      /\ canvasData = <<>>
      /\ \A i \in 1..Len(writes) : writes[i].owner # "clear" )
    => disk = Stringify(<<>>)

\* C9: a restore with an array replaces the log by that array, element for
\* element; no entry of the log before remains unless the array holds it.
RestoreReplacesLog ==
    [][ \A body \in RestoreInputs :
          (Restore(body) /\ IsArray(Get(body, "data"))) =>
             LET data == Get(body, "data")[2]
             IN  /\ canvasData' = data
                 /\ \A i \in 1..Len(canvasData) :
                       (\E j \in 1..Len(canvasData') : canvasData'[j] = canvasData[i])
                          => \E j \in 1..Len(data) : data[j] = canvasData[i] ]_vars

\* a restore has replaced a log that held a stamped stroke
RestoredOverStrokes ==
    /\ lastOp = Op("restore", "replaced")
    /\ idCount > 0
    /\ canvasData = <<BackupStroke(1), Str("junk")>>

\* C10: the log is never longer than MAX_STROKES, also right after a
\* restore.
LogWithinBound == Len(canvasData) <= MAX_STROKES

(***************************************************************************)
(* C11: a POST /api/canvas/restore whose body has no array in its field    *)
(* `data` is answered with 400 and changes nothing: the log is as it was,  *)
(* no write is issued, the file is as it was and no session is sent        *)
(* anything.                                                               *)
(***************************************************************************)
RestoreNonArrayRejected ==
    [][\A body \in RestoreInputs :
         (Restore(body) /\ Get(body, "data")[1] # "array")
            => /\ lastOp' = Op("restore", "400")
               /\ canvasData' = canvasData
               /\ writes' = writes
               /\ disk' = disk
               /\ outbox' = outbox]_vars

\* a restore has been refused while the log held strokes
RestoreRefusedOverStrokes ==
    /\ lastOp = Op("restore", "400")
    /\ canvasData # <<>>
    /\ writes = <<>>

\* the payload has a number in each of x0, y0, x1 and y1
NumericGeometry(data) ==
    \A f \in GeometryFields :
        /\ data[1] = "object"
        /\ f \in DOMAIN data[2]
        /\ data[2][f][1] = "number"

StyleFields == {"color", "size", "tool"}

(***************************************************************************)
(* C12: a draw or erase whose payload is missing, or lacks a number in x0, *)
(* y0, x1 or y1, is dropped silently: the log is as it was, no session is  *)
(* sent a stroke-added or an error event, and no write is issued.          *)
(***************************************************************************)
MalformedDropped ==
    [][\A s \in Sessions, data \in DrawInputs, kind \in {"draw", "erase"} :
         (AppendHandler(s, data, kind) /\ ~NumericGeometry(data))
            => /\ canvasData' = canvasData
               /\ outbox' = outbox
               /\ writes' = writes
               /\ disk' = disk]_vars

\* a malformed payload has been dropped while the log held a stroke and
\* both sessions were listening
MalformedDroppedOverStroke ==
    /\ lastOp.res = "dropped"
    /\ canvasData # <<>>
    /\ connected = Sessions
    /\ AllDelivered

(***************************************************************************)
(* C13: a draw or erase payload with numeric x0, y0, x1, y1 that lacks     *)
(* color, size or tool is rejected: it is neither appended to the log nor  *)
(* broadcast.                                                              *)
(***************************************************************************)
StyleRequired ==
    [][\A s \in Sessions, data \in DrawInputs, kind \in {"draw", "erase"} :
         ( /\ AppendHandler(s, data, kind)
           /\ NumericGeometry(data)
           /\ \E f \in StyleFields : Get(data, f) = Undefined )
            => /\ canvasData' = canvasData
               /\ outbox' = outbox]_vars

(***************************************************************************)
(* C14: every stroke in the log carries an id and a timestamp that the     *)
(* server assigned when it appended the stroke (an id of generateId, a     *)
(* timestamp of a day the server has seen), whatever the client put in its *)
(* payload and whichever entry point brought the stroke in.                *)
(***************************************************************************)
ServerAssigned(st) ==
    /\ \E n \in 1..idCount : Get(st, "id") = generateId(n)
    /\ \E d \in 0..today : Get(st, "timestamp") = Num(d + 1)

EveryStrokeServerStamped ==
    \A i \in 1..Len(canvasData) : ServerAssigned(canvasData[i])

(***************************************************************************)
(* C15: a session that connects and stays connected is in the end sent one *)
(* canvas-data event by the timer of its connection: the event goes to     *)
(* that session only, carries the log as it is when the timer fires, and   *)
(* no other session is sent anything; the timer is not armed again while   *)
(* the session stays connected.                                            *)
(***************************************************************************)
GreetingStep(s) ==
    /\ outbox'[s] = Append(outbox[s], Event("canvas-data", Arr(canvasData)))
    /\ \A t \in Sessions \ {s} : outbox'[t] = outbox[t]
    /\ canvasData' = canvasData

NewSessionGreeted ==
    /\ [][\A s \in Sessions :
            /\ (s \in greeting /\ s \notin greeting')
                  => (s \notin connected' \/ GreetingStep(s))
            /\ (s \in connected /\ s \notin greeting /\ s \in connected')
                  => s \notin greeting']_vars
    /\ \A s \in Sessions : (s \in greeting) ~> (s \notin greeting)

\* B has been greeted with the stroke it drew while its timer was pending,
\* and A, connected, has been sent nothing
GreetedWithLaterStroke ==
    /\ lastOp = Op("greet", "sent")
    /\ connected = Sessions
    /\ idCount = 1 /\ Len(canvasData) = 1
    /\ Get(canvasData[1], "userId") = Str("B")
    /\ "B" \notin greeting
    /\ outbox["B"] = <<Event("canvas-data", Arr(canvasData))>>
    /\ outbox["A"] = <<>>

(***************************************************************************)
(* C16: a request-sync is answered with exactly one canvas-data event that *)
(* carries the log as it is, sent to the session that asked and to nobody  *)
(* else; the log, the stored reset date and the snapshot on disk (and the  *)
(* writes on their way to it) are as they were.                            *)
(***************************************************************************)
RequestSyncAnswersRequester ==
    [][\A s \in Sessions :
         RequestSync(s)
            => /\ outbox'[s] = Append(outbox[s],
                                      Event("canvas-data", Arr(canvasData)))
               /\ \A t \in Sessions \ {s} : outbox'[t] = outbox[t]
               /\ canvasData' = canvasData
               /\ lastResetDate' = lastResetDate
               /\ disk' = disk
               /\ writes' = writes]_vars

\* one of two connected sessions has been sent the log it asked for, the
\* other nothing
SyncAnsweredToOne ==
    /\ lastOp = Op("request-sync", "sent")
    /\ connected = Sessions /\ greeting = {}
    /\ canvasData # <<>>
    /\ outbox["A"] = <<Event("canvas-data", Arr(canvasData))>>
    /\ outbox["B"] = <<>>

(***************************************************************************)
(* C17: POST /api/sync-canvas with an array S sets the log to the last     *)
(* MAX_STROKES entries of the previous log followed by S, in order, and    *)
(* sends one canvas-data event with that log to every connected session    *)
(* (and to no other); with a body that is no array it answers 400, the log *)
(* is as it was and nothing is sent.                                       *)
(***************************************************************************)
OfflineSyncAppends ==
    [][\A body \in SyncInputs :
         SyncCanvas(body)
            => IF body[1] = "array"
               THEN LET all  == canvasData \o body[2]
                        keep == Min(Len(all), MAX_STROKES)
                    IN  /\ Len(canvasData') = keep
                        /\ \A i \in 1..keep :
                              canvasData'[i] = all[Len(all) - keep + i]
                        /\ \A t \in Sessions :
                              outbox'[t] =
                                IF t \in connected
                                THEN Append(outbox[t],
                                            Event("canvas-data", Arr(canvasData')))
                                ELSE outbox[t]
                        /\ lastOp' = Op("sync-canvas", "200")
               ELSE /\ lastOp' = Op("sync-canvas", "400")
                    /\ canvasData' = canvasData
                    /\ outbox' = outbox]_vars

\* an offline stroke has been added to a full log: the older of the two
\* drawn strokes is gone, and both sessions have been sent the new log
SyncedOntoFullLog ==
    /\ lastOp = Op("sync-canvas", "200")
    /\ connected = Sessions
    /\ Len(canvasData) = MAX_STROKES
    /\ Get(canvasData[1], "id") = generateId(MAX_STROKES)
    /\ canvasData[MAX_STROKES] = FullPayload
    /\ \A t \in Sessions :
          outbox[t] = <<Event("canvas-data", Arr(canvasData))>>

(***************************************************************************)
(* C18: a daily-reset processed when the stored reset date differs from    *)
(* the current day empties the log, sends canvas-cleared to every          *)
(* connected session, issues a save of the empty log and sets the stored   *)
(* date to the current day; processed when the two are equal, as they are  *)
(* on the day the process started, it changes nothing and sends nothing.   *)
(***************************************************************************)
DailyResetOncePerDay ==
    /\ [](today = 0 => lastResetDate = today)
    /\ [][\A s \in Sessions :
            DailyReset(s)
               => IF lastResetDate # today
                  THEN /\ canvasData' = <<>>
                       /\ \A t \in Sessions :
                             outbox'[t] =
                               IF t \in connected
                               THEN Append(outbox[t],
                                           Event("canvas-cleared", Undefined))
                               ELSE outbox[t]
                       /\ Len(writes') = Len(writes) + 1
                       /\ writes'[Len(writes')].content = JsonText(Arr(<<>>))
                       /\ lastResetDate' = today
                  ELSE /\ canvasData' = canvasData
                       /\ outbox' = outbox
                       /\ writes' = writes
                       /\ disk' = disk
                       /\ lastResetDate' = lastResetDate]_vars

\* on the day after the start a reset has emptied a log that held a stroke
\* and has told both sessions
ResetOnNextDay ==
    /\ lastOp = Op("daily-reset", "cleared")
    /\ today = 1 /\ lastResetDate = 1
    /\ idCount >= 1 /\ canvasData = <<>>
    /\ connected = Sessions
    /\ \A t \in Sessions : outbox[t] = <<Event("canvas-cleared", Undefined)>>
    /\ Len(writes) = 1

(***************************************************************************)
(* C19: round trip.  When every entry of the log is a stroke stamped on    *)
(* the current day, the file that a successful save of the log leaves is   *)
(* loaded, at a start on that day, as a log with the same strokes, the     *)
(* same fields and the same order.                                         *)
(***************************************************************************)
StrokesOfToday(log) ==
    \A i \in 1..Len(log) :
        /\ log[i][1] = "object"
        /\ Get(log[i], "timestamp") = Num(today + 1)

SaveLoadRoundTrip ==
    StrokesOfToday(canvasData)
       => LET w == [content |-> Stringify(canvasData), owner |-> "interval"]
          IN  LoadedLog(DiskAfter(w, "written"), today) = canvasData

\* the two strokes that were drawn and saved have been loaded by the
\* process started next
DrawnStrokesLoaded ==
    /\ lastOp = Op("load", "parsed")
    /\ Len(canvasData) = 2
    /\ StrokesOfToday(canvasData)
    /\ Get(canvasData[1], "id") = generateId(1)
    /\ Get(canvasData[2], "id") = generateId(2)
    /\ disk = Stringify(canvasData)

(***************************************************************************)
(* C20: a start that finds no file, an unreadable file or a text that is   *)
(* no JSON leaves the log empty and goes on to listen; as long as the load *)
(* is under way no session is connected, no event is sent, no stroke is    *)
(* stamped and no POST is handled.                                         *)
(***************************************************************************)
StartsFreshOnBadSnapshot ==
    /\ [][(LoadCanvasData /\ disk \in {NoFile, Unreadable, Partial})
             => (canvasData' = <<>> /\ phase' = "listening")]_vars
    /\ [][phase = "loading"
             => /\ connected' = {}
                /\ outbox' = outbox
                /\ idCount' = idCount
                /\ posts' = posts]_vars
    /\ [](phase = "loading" => connected = {} /\ AllDelivered)

\* started on an unreadable file, the server has taken in both sessions and
\* a stroke
ServingAfterUnreadableFile ==
    /\ disk = Unreadable
    /\ phase = "listening"
    /\ connected = Sessions
    /\ Len(canvasData) = 1

(***************************************************************************)
(* C21: when the file holds an array whose first stroke has a timestamp,   *)
(* the load leaves the log empty if that timestamp does not fall on the    *)
(* current day, and leaves the whole array as the log if it does.          *)
(***************************************************************************)
FirstStrokeStamped(file) ==
    /\ file[1] = "json"
    /\ Len(file[2][2]) > 0
    /\ file[2][2][1][1] = "object"
    /\ "timestamp" \in DOMAIN file[2][2][1][2]
    /\ file[2][2][1][2]["timestamp"][1] = "number"

DiscardedAcrossDays ==
    [][(LoadCanvasData /\ FirstStrokeStamped(disk))
          => IF disk[2][2][1][2]["timestamp"] # Num(today + 1)
             THEN canvasData' = <<>>
             ELSE canvasData' = disk[2][2]]_vars

\* the strokes of the day before have been discarded by a start on the next
YesterdaysSnapshotDiscarded ==
    /\ lastOp = Op("load", "parsed")
    /\ today = 1
    /\ disk = Stringify(<<BackupStroke(1), BackupStroke(2)>>)
    /\ canvasData = <<>>

(***************************************************************************)
(* C23: in every reachable state every entry of the log has a number in    *)
(* each of x0, y0, x1 and y1, whichever of draw, erase, undo, clear,       *)
(* offline sync and restore produced the state.                            *)
(***************************************************************************)
EveryStrokeWellFormed ==
    \A i \in 1..Len(canvasData) : NumericGeometry(canvasData[i])

(***************************************************************************)
(* C24: the snapshot that an undo, a restore or an offline sync sends to   *)
(* the sessions is the log that this operation produced: for undo and sync *)
(* the log the handler leaves, for restore the array it installed (whose   *)
(* text is what its save writes), with nothing of a handler that ran       *)
(* later.                                                                  *)
(***************************************************************************)
LastSent(t) == outbox'[t][Len(outbox'[t])]

BroadcastIsOwnResult ==
    [][/\ \A s \in Sessions, data \in UndoInputs :
            (Undo(s, data) /\ canvasData' # canvasData)
               => \A t \in connected :
                     LastSent(t) = Event("canvas-data", Arr(canvasData'))
       /\ \A body \in SyncInputs :
            (SyncCanvas(body) /\ body[1] = "array")
               => \A t \in connected :
                     LastSent(t) = Event("canvas-data", Arr(canvasData'))
       /\ \A i \in 1..Len(writes) :
            (WriteSettles(i, "written") /\ writes[i].owner = "restore")
               => \A t \in connected :
                     /\ LastSent(t).event = "canvas-data"
                     /\ JsonText(LastSent(t).payload) = writes[i].content]_vars

(***************************************************************************)
(* C25: a write that fails (or stops half way) changes nothing but the     *)
(* file: the process goes on listening with the log and the sessions it    *)
(* had, no session is sent an error, a restore that awaited the write      *)
(* still sends its canvas-data to every session and a clear or daily reset *)
(* sends nothing more; the interval timer stays armed and its next save    *)
(* writes the log as it is then.                                           *)
(***************************************************************************)
FailedWriteHarmless ==
    /\ [][\A i \in 1..Len(writes), outcome \in {"failed", "partial"} :
            WriteSettles(i, outcome)
               => /\ canvasData' = canvasData
                  /\ phase' = phase
                  /\ connected' = connected
                  /\ \A t \in Sessions :
                        outbox'[t] =
                          IF writes[i].owner = "restore" /\ t \in connected
                          THEN Append(outbox[t],
                                      Event("canvas-data", Arr(canvasData)))
                          ELSE outbox[t]]_vars
    /\ [][IntervalSave
             => /\ Len(writes') = Len(writes) + 1
                /\ writes'[Len(writes')].content = Stringify(canvasData)]_vars
    /\ [](Len(writes) < MaxWrites => ENABLED IntervalSave)

\* the write of a restore has failed: nothing is on disk, both sessions have
\* been sent the restored log
RestoreCompletedUnsaved ==
    /\ lastOp = Op("restore-saved", "failed")
    /\ disk = NoFile
    /\ canvasData = <<BackupStroke(1)>>
    /\ \A t \in Sessions :
          outbox[t] = <<Event("canvas-data", Arr(canvasData))>>

(***************************************************************************)
(* C26: a SIGINT or SIGTERM issues one save of the log as it is; the       *)
(* process exits only in the step in which a save issued by a signal       *)
(* handler completes or fails; and once such a save is under way the       *)
(* process exits in the end.                                               *)
(***************************************************************************)
ShutdownSaveUnderWay ==
    \E i \in 1..Len(writes) : writes[i].owner = "shutdown"

ShutdownSavesThenExits ==
    /\ [][Signal
             => writes' = Append(writes, [content |-> Stringify(canvasData),
                                          owner |-> "shutdown"])]_vars
    /\ [][(phase # "exited" /\ phase' = "exited")
             => \E i \in 1..Len(writes), outcome \in WriteOutcomes :
                   /\ writes[i].owner = "shutdown"
                   /\ WriteSettles(i, outcome)]_vars
    /\ ShutdownSaveUnderWay ~> (phase = "exited")

\* the process has exited after its last save failed, with a stroke in the
\* log and nothing on disk
ExitedAfterFailedSave ==
    /\ phase = "exited"
    /\ lastOp = Op("shutdown-saved", "failed")
    /\ canvasData # <<>>
    /\ disk = NoFile

KeptButOldest(d) ==
    /\ Len(canvasData') >= Len(canvasData) - d
    /\ \A i \in (d + 1)..Len(canvasData) : canvasData'[i - d] = canvasData[i]

KeptOrTrimmed ==
    \E d \in 0..Len(canvasData) :
        /\ d > 0 => Len(canvasData') = MAX_STROKES
        /\ KeptButOldest(d)

StrokesLeaveByTrimClearRestore ==
    [][CASE lastOp'.op \in {"clear", "daily-reset", "restore"} -> TRUE
         [] lastOp'.op \in {"draw", "erase", "sync-canvas"} -> KeptOrTrimmed
         [] OTHER -> KeptButOldest(0)]_vars

\* C28, amended: ... or an undo, which takes the newest entries off and
\* leaves the others as they were.
StrokesLeaveByTrimUndoClearRestore ==
    [][CASE lastOp'.op \in {"clear", "daily-reset", "restore"} -> TRUE
         [] lastOp'.op \in {"draw", "erase", "sync-canvas"} -> KeptOrTrimmed
         [] lastOp'.op = "undo" ->
              \E k \in 0..Len(canvasData) :
                  canvasData' = SubSeq(canvasData, 1, k)
         [] OTHER -> KeptButOldest(0)]_vars

\* an undo has taken the second of two drawn strokes off; the first is as
\* it was
UndoneNewestStroke ==
    /\ lastOp.op = "undo" /\ lastOp.res = "truncated"
    /\ idCount = 2
    /\ Len(canvasData) = 1
    /\ Get(canvasData[1], "id") = generateId(1)

(***************************************************************************)
(* C30: two undos with targets k1 and k2, both at least 1 and below the    *)
(* length of the log, handled one after the other, leave the first         *)
(* min(k1, k2) entries of the log, in either order.                        *)
(***************************************************************************)
UndoOrderIrrelevant ==
    \A k1, k2 \in 1..(Len(canvasData) - 1) :
        UndoLog(UndoLog(canvasData, UndoTo(k1)), UndoTo(k2))
            = SliceFirst(canvasData, IF k1 < k2 THEN k1 ELSE k2)

\* a restored log of three strokes was cut to one by an undo, and the undo
\* to two that came next changed nothing
StaleUndoIgnored ==
    /\ disk = Stringify(LongArray)
    /\ lastOp = OpArg("undo", UndoTo(2), "ignored")
    /\ canvasData = <<BackupStroke(1)>>

(***************************************************************************)
(* C29: trimming is silent.  When the handler of a draw or erase appends   *)
(* to a full log, so that the oldest entry is dropped, the one event it    *)
(* sends is the stroke-added with the new stroke, to every connected       *)
(* session but the sender, and no page changes; a page that receives a     *)
(* stroke-added keeps every stroke it holds, the dropped ones too.         *)
(***************************************************************************)
TrimIsSilent ==
    /\ [][\A s \in Sessions :
            (Handle(s) /\ lastOp'.res = "appended"
                       /\ Len(canvasData) >= MAX_STROKES)
            => /\ \A t \in Sessions :
                    outbox'[t] =
                        IF t \in connected \ {s}
                        THEN Append(outbox[t],
                                    Event("stroke-added",
                                          canvasData'[Len(canvasData')]))
                        ELSE outbox[t]
               /\ client' = client]_vars
    /\ [][\A s \in Sessions :
            (Receive(s) /\ outbox[s][1].event = "stroke-added")
            => /\ Len(client'[s].allStrokes) = Len(client[s].allStrokes) + 1
               /\ \A i \in 1..Len(client[s].allStrokes) :
                    client'[s].allStrokes[i] = client[s].allStrokes[i]]_vars

\* the first stroke the server stamped has been trimmed from the log, and a
\* page that received it still holds it
TrimmedStrokeStillHeld ==
    /\ AllDelivered /\ AllHandled
    /\ Len(canvasData) = MAX_STROKES
    /\ \A j \in 1..Len(canvasData) : Get(canvasData[j], "id") # generateId(1)
    /\ \E s \in Sessions :
         \E i \in 1..Len(client[s].allStrokes) :
             Get(client[s].allStrokes[i], "id") = generateId(1)

(***************************************************************************)
(* C22: no divergence after a destructive operation.  When the server has  *)
(* handled an undo, a clear or a restore, every event has been handled and *)
(* received and no write is under way, the strokes of every connected page *)
(* are the strokes of the server's log, in the same order.  It is stated   *)
(* for the states in which the step taken last was the end of a clear or a *)
(* restore or the receipt of the canvas-cleared or canvas-data that an     *)
(* undo, a clear or a restore sends; strokes are compared by what a page   *)
(* draws of them, since the copy a page keeps of its own stroke has not    *)
(* the server's id and timestamp.                                          *)
(***************************************************************************)
Drawn(st) ==
    [f \in {"x0", "y0", "x1", "y1", "color", "size", "tool"} |-> Get(st, f)]

SameStrokes(local, log) ==
    /\ Len(local) = Len(log)
    /\ \A i \in 1..Len(log) : Drawn(local[i]) = Drawn(log[i])

Quiet == AllDelivered /\ AllHandled /\ NoWrites

DestructiveDone ==
    \/ lastOp.op \in {"clear-saved", "restore-saved"}
    \/ lastOp.op = "deliver" /\ lastOp.res \in {"canvas-cleared", "canvas-data"}

NoDivergenceAfterDestructive ==
    (Quiet /\ DestructiveDone)
        => \A s \in connected : SameStrokes(client[s].allStrokes, canvasData)

(***************************************************************************)
(* C31: of the daily-reset events handled on one calendar day at most one  *)
(* empties the log and sends canvas-cleared, however the handlers and the  *)
(* saves they wait for interleave: a reset that is handled when the stored *)
(* date is the current day does nothing; a reset that empties the log      *)
(* stores the current day in the same step; and no step but midnight makes *)
(* the stored date differ from the current day again.                      *)
(***************************************************************************)
ResetDoneToday == lastResetDate = today

AtMostOneResetPerDay ==
    /\ [][\A s \in Sessions :
            (DailyReset(s) /\ ResetDoneToday)
            => /\ canvasData' = canvasData
               /\ outbox' = outbox
               /\ writes' = writes]_vars
    /\ [][(lastOp'.op = "daily-reset" /\ lastOp'.res = "cleared")
            => (~ResetDoneToday /\ ResetDoneToday')]_vars
    /\ [][(ResetDoneToday /\ today' = today) => ResetDoneToday']_vars

\* a second daily-reset of the same day was handled while the save of the
\* first was still under way, and did nothing
SecondResetIgnoredDuringSave ==
    /\ lastOp = Op("daily-reset", "ignored")
    /\ today = 1
    /\ lastResetDate = 1
    /\ \E i \in 1..Len(writes) : writes[i].owner = "reset"

(***************************************************************************)
(* C32: no save issued before the startup load has completed writes the    *)
(* initial empty log over the persisted snapshot: while loadCanvasData is  *)
(* under way and the file holds a snapshot with strokes, the file does not *)
(* become the text of the empty log.                                       *)
(***************************************************************************)
HoldsStrokes(file) == file[1] = "json" /\ file # Stringify(<<>>)

SnapshotSurvivesStartup ==
    [][(phase = "loading" /\ HoldsStrokes(disk))
         => disk' # Stringify(<<>>)]_vars

(***************************************************************************)
(* C33: draw, erase, undo, request-sync and POST /api/sync-canvas issue no *)
(* file write and leave the file as it is; a write is issued only by the   *)
(* interval timer, a signal, clear, daily reset and restore, and the file  *)
(* changes only when one of their writes ends.  So the strokes an undo     *)
(* takes off the log stay in the file until a later save.                  *)
(***************************************************************************)
NoSaveOps == {"draw", "erase", "undo", "request-sync", "sync-canvas"}

SaveOps == {"interval-save", "signal", "clear", "daily-reset", "restore"}

SaveEnds == {"interval-saved", "shutdown-saved", "clear-saved",
             "reset-saved", "restore-saved"}

OnlySavesTouchFile ==
    /\ [][lastOp'.op \in NoSaveOps
            => (writes' = writes /\ disk' = disk)]_vars
    /\ [][writes' \notin {writes} \cup {RemoveAt(writes, i) : i \in 1..Len(writes)}
            => (lastOp'.op \in SaveOps \/ phase' = "exited")]_vars
    /\ [][disk' # disk => lastOp'.op \in SaveEnds]_vars

\* an undo has cut the log and the file still holds the strokes it removed
UndoneStrokesStillOnDisk ==
    /\ lastOp.op = "undo" /\ lastOp.res = "truncated"
    /\ disk[1] = "json"
    /\ Len(disk[2][2]) > Len(canvasData)
    /\ NoWrites

(***************************************************************************)
(* C34: overlapping saves leave no stale content: while the process runs,  *)
(* when every write that was issued has ended the file holds the log as    *)
(* the save issued last captured it.  Where every change of the log is     *)
(* saved and every write succeeds, that is the log itself.                 *)
(***************************************************************************)
LatestSaveWins ==
    (phase = "listening" /\ NoWrites /\ disk # NoFile)
        => disk = Stringify(canvasData)

(***************************************************************************)
(* C35: eventual durability.  If from some point on no step changes the    *)
(* log and no write fails, then from some point on the file holds the text *)
(* of the log, for good.  The timer that keeps firing and the writes that  *)
(* end are the fairness conditions of the specification.                   *)
(***************************************************************************)
NoWriteFails == lastOp'.res \notin {"failed", "partial"}

EventuallyDurable ==
    (<>[][canvasData' = canvasData]_vars /\ <>[][NoWriteFails]_vars)
        => <>[](disk = Stringify(canvasData))

\* the log holds strokes, an interval save has ended and no write is under
\* way: the file holds the text of the log
LogSavedByInterval ==
    /\ lastOp = Op("interval-saved", "written")
    /\ NoWrites
    /\ canvasData # <<>>
    /\ disk = Stringify(canvasData)

(***************************************************************************)
(* C36: a graceful shutdown loses no accepted operation: when the write of *)
(* a signal handler ends in full, no other write being under way, and the  *)
(* process exits, the file holds the text of the log as it is at the exit. *)
(***************************************************************************)
ShutdownSavesWholeLog ==
    [][\A i \in 1..MaxWrites :
          ( /\ WriteSettles(i, "written")
            /\ writes[i].owner = "shutdown"
            /\ Len(writes) = 1
            /\ phase' = "exited" )
          => disk' = Stringify(canvasData')]_vars

(***************************************************************************)
(* C37: with draw and erase only and before any trimming, whenever every   *)
(* event has been handled and received the strokes of each connected page  *)
(* are the strokes of the server's log, in the same order.                 *)
(***************************************************************************)
PagesFollowLogOrder ==
    (AllDelivered /\ AllHandled /\ idCount <= MAX_STROKES)
        => \A s \in connected : SameStrokes(client[s].allStrokes, canvasData)

(***************************************************************************)
(* C38: after the startup load the log is an array whatever the file       *)
(* holds (nothing, text that does not parse, an array, or JSON of another  *)
(* kind), and appends work: once the server listens canvasData is an       *)
(* array, and a draw with valid geometry is appended.                      *)
(***************************************************************************)
LoadAlwaysGivesArray ==
    /\ [](phase = "listening" => foreign = NotForeign)
    /\ [][\A s \in Sessions :
            Draw(s, FullPayload) => lastOp'.res = "appended"]_vars

=============================================================================
